---- MODULE Spec2Model ----
(***************************************************************************)
(* Two instructional notebooks run by a Jupyter kernel:                    *)
(*   src/02-python-data-types/Python-data-types-and-methods-2.ipynb        *)
(*   src/13-geocoding/APIs and geocoding.ipynb                             *)
(* The state is the kernel's top-level namespace, the process environment, *)
(* the output and error of the cell executed last, and the HTTP traffic.   *)
(* A cell is an operator from the namespace (and the inputs it reads) to   *)
(* an outcome; one action per cell commits that outcome.  Cells may be run *)
(* in any order and any number of times.                                   *)
(***************************************************************************)
EXTENDS Integers, Sequences, FiniteSets, TLC

VARIABLES
  ns,        \* top-level variable bindings of the kernel: name -> value
  env,       \* os.environ: the process environment
  out,       \* what the cell executed last printed or displayed
  err,       \* the exception that ended the cell executed last, or "None"
  pc,        \* "idle", or the cell that waits for its HTTP request to return
  inflight,  \* HTTP requests issued and not yet answered
  sent,      \* number of HTTP requests issued so far
  calls,     \* number of network calls (requests.get, ...) executed so far
  last,      \* the HTTP response received last
  runs,      \* number of cell executions started in this session
  seed,      \* the process's hash seed (PYTHONHASHSEED), fixed at start-up
  arg        \* the inputs drawn for the list-removal and zip programs

vars == <<ns, env, out, err, pc, inflight, sent, calls, last, runs, seed, arg>>

(***************************************************************************)
(* Python values.  Every value is a record tagged with its type.           *)
(***************************************************************************)
Unbound == [t |-> "unbound"]
Tup(s) == [t |-> "tuple", v |-> s]
Lst(s) == [t |-> "list", v |-> s]
Dict(s) == [t |-> "dict", v |-> s]      \* items <<key, value>> in insertion order
ZipIter(s) == [t |-> "zip", v |-> s]    \* the pairs the iterator has yet to yield
Num(n) == [t |-> "num", v |-> n]
Arr(s) == [t |-> "ndarray", v |-> s]
Str(s) == [t |-> "str", v |-> s]
Module == [t |-> "module"]

IsBound(b, n) == b[n].t # "unbound"

\* The outcome of a cell: the namespace it leaves, what it printed, how it ended.
Ok(b, o) == [ns |-> b, out |-> o, err |-> "None"]
Raise(b, o, e) == [ns |-> b, out |-> o, err |-> e]

(***************************************************************************)
(* Bounds of the model.                                                    *)
(***************************************************************************)
MaxLen == 3        \* longest tuple or list drawn as an input of SpecOps
RandCells == 2     \* cells of the random array (stands for the 10 x 10 of the source)
RandLevels == 1    \* a draw is one of 0 .. RandLevels (stands for a float in [0, 1))
MaxSeed == 1       \* hash seeds are 0 .. MaxSeed

Seeds == 0 .. MaxSeed
Draws == [1 .. RandCells -> 0 .. RandLevels]

(***************************************************************************)
(* Built-ins of the language, as far as the notebooks use them.            *)
(***************************************************************************)
Contains(s, c) == \E i \in 1 .. Len(s) : s[i] = c

\* A removal that deletes every element equal to c (not what list.remove does).
RemoveAll(s, c) == SelectSeq(s, LAMBDA e : e # c)

\* list.remove(c): scans from the left and deletes the first element equal to c.
RECURSIVE RemoveFirst(_, _)
RemoveFirst(s, c) ==
  IF s = <<>> THEN <<>>
  ELSE IF Head(s) = c THEN Tail(s)
  ELSE <<Head(s)>> \o RemoveFirst(Tail(s), c)

\* list(obj) and tuple(obj) of a tuple or a list: a new object with the same elements.
PyList(obj) == Lst(obj.v)
PyTuple(obj) == Tup(obj.v)

\* A pairing that stops one pair early (not what zip does).
RECURSIVE PyZipShort(_, _)
PyZipShort(xs, ys) ==
  IF Len(xs) <= 1 \/ Len(ys) <= 1 THEN <<>>
  ELSE <<Tup(<<Head(xs), Head(ys)>>)>> \o PyZipShort(Tail(xs), Tail(ys))

\* zip(x, y): pairs up elements until the shorter argument is exhausted.
RECURSIVE PyZip(_, _)
PyZip(xs, ys) ==
  IF xs = <<>> \/ ys = <<>> THEN <<>>
  ELSE <<Tup(<<Head(xs), Head(ys)>>)>> \o PyZip(Tail(xs), Tail(ys))

\* list.__setitem__: the element at index i (counted from 0) is replaced.
SetItemMutable(obj, i, v) ==
  IF i < Len(obj.v)
    THEN [err |-> "None", val |-> [obj EXCEPT !.v[i + 1] = v]]
    ELSE [err |-> "IndexError", val |-> obj]

\* obj[i] = v: lists take it, tuples raise TypeError.
SetItem(obj, i, v) ==
  IF obj.t = "list" THEN SetItemMutable(obj, i, v)
  ELSE [err |-> "TypeError", val |-> obj]

\* obj.remove[c] (square brackets): a tuple has no attribute remove; the bound
\* method of a list is not subscriptable.  Either way obj is not touched.
RemoveSubscript(obj, c) ==
  IF obj.t = "list" THEN [err |-> "TypeError", val |-> obj]
  ELSE [err |-> "AttributeError", val |-> obj]

\* An assignment that always adds an entry, whether or not k is a key already.
DictAppend(items, k, v) == Append(items, <<k, v>>)

\* d[k] = v on dictionary items: replaces the value of k in place, or appends k.
DictSet(items, k, v) ==
  IF \E i \in 1 .. Len(items) : items[i][1] = k
    THEN [i \in 1 .. Len(items) |->
            IF items[i][1] = k THEN <<k, v>> ELSE items[i]]
    ELSE Append(items, <<k, v>>)

\* Keys delivered in another order than they were inserted in.
KeysReversed(items) == [i \in DOMAIN items |-> items[Len(items) + 1 - i][1]]

\* Iteration over d.keys(): the keys in the order of insertion (CPython 3.6).
KeysInOrder(items) == [i \in DOMAIN items |-> items[i][1]]

\* d.keys() as a set, and d[k] for a key k of d.
DictKeys(items) == {items[i][1] : i \in DOMAIN items}
DictGet(items, k) == items[CHOOSE i \in DOMAIN items : items[i][1] = k][2]

\* A deletion that drops the entry inserted last, whatever the key.
DictPopItem(items, k) == SubSeq(items, 1, Len(items) - 1)

\* del d[k] for a key k of d: the entry of k goes, the others stay in their order.
DictDel(items, k) == SelectSeq(items, LAMBDA it : it[1] # k)

\* An update that throws away what the dictionary held.
DictReplace(items, other) == other

\* dict.update(other): assigns other's items one by one, in other's order.
RECURSIVE DictUpdate(_, _)
DictUpdate(items, other) ==
  IF other = <<>> THEN items
  ELSE DictUpdate(DictSet(items, Head(other)[1], Head(other)[2]), Tail(other))

\* dict(pairs), with the pairs that zip yields.
PairsOf(zs) == [i \in 1 .. Len(zs) |-> <<zs[i].v[1], zs[i].v[2]>>]
PyDict(zs) == Dict(DictUpdate(<<>>, PairsOf(zs)))

Reverse(s) == [i \in 1 .. Len(s) |-> s[Len(s) + 1 - i]]

\* How a dictionary would print if its order came from the hash seed.
DictReprHashed(dv, s) == IF s = 0 THEN dv ELSE Dict(Reverse(dv.v))

\* How a dictionary prints.  The kernel is CPython 3.6: insertion order,
\* whatever the hash seed.
DictRepr(dv, s) == dv

\* membership decided by the first element (or first key) alone
PyInFirst(x, c) ==
  IF c.v = <<>> THEN FALSE
  ELSE IF c.t = "dict" THEN c.v[1][1] = x ELSE c.v[1] = x

\* x in c: for a list, x equals one of the elements; for a dictionary, x
\* equals one of the keys
PyIn(x, c) ==
  IF c.t = "dict" THEN x \in DictKeys(c.v) ELSE Contains(c.v, x)

\* x not in c
PyNotIn(x, c) == ~PyIn(x, c)

\* round(n, 2) of a number n given in units of 0.00001: the nearest hundredth
\* (1000 units), a tie going to the even one.
Round2(n) ==
  LET r == n % 1000 IN
  IF r < 500 THEN n - r
  ELSE IF r > 500 THEN n - r + 1000
  ELSE IF ((n - r) \div 1000) % 2 = 0 THEN n - r ELSE n - r + 1000

\* A loop that converts the entry of the first key only.
PercentLoopFirst(items, ks) ==
  IF ks = <<>> THEN items
  ELSE DictSet(items, Head(ks), Round2(100 * DictGet(items, Head(ks))))

\* for value in race.keys(): race[value] = round(100 * race[value], 2)
\* with ks the keys the loop has yet to visit.
RECURSIVE PercentLoop(_, _)
PercentLoop(items, ks) ==
  IF ks = <<>> THEN items
  ELSE PercentLoop(DictSet(items, Head(ks), Round2(100 * DictGet(items, Head(ks)))),
                   Tail(ks))

SeqMin(s) == CHOOSE m \in {s[i] : i \in DOMAIN s} : \A j \in DOMAIN s : m <= s[j]
SeqMax(s) == CHOOSE m \in {s[i] : i \in DOMAIN s} : \A j \in DOMAIN s : m >= s[j]

\* The float n / d (n >= 0, d > 0), kept as the fraction in lowest terms.
Float(n, d) ==
  LET g == CHOOSE g \in 1 .. d :
             /\ n % g = 0 /\ d % g = 0
             /\ \A h \in (g + 1) .. d : ~(n % h = 0 /\ d % h = 0)
  IN  [t |-> "float", v |-> <<n \div g, d \div g>>]

\* an array that lost the first element of the list
NpArrayTail(c) == Arr(IF c.v = <<>> THEN <<>> ELSE Tail(c.v))

\* np.array(c) for a list c of integers: a new array that holds the elements
\* of c in their order
NpArray(c) == Arr(c.v)

\* sum(s): the elements added from left to right, starting from 0
RECURSIVE PySum(_)
PySum(s) == IF s = <<>> THEN 0 ELSE PySum(SubSeq(s, 1, Len(s) - 1)) + s[Len(s)]

\* f(c) for f one of sum, min, np.mean, np.median, np.size and c a list or an
\* array of integers.  The builtins sum and min iterate over c; the numpy
\* functions first make an array of a list.  min of nothing raises ValueError,
\* the mean and the median of nothing are nan.
Reduce(f, c) ==
  LET s == IF c.t = "list" /\ f \in {"mean", "median", "size"} THEN NpArray(c).v ELSE c.v
      n == Len(s)
      Kth(k) == CHOOSE e \in {s[i] : i \in DOMAIN s} :
                  /\ Cardinality({i \in DOMAIN s : s[i] < e}) < k
                  /\ k <= Cardinality({i \in DOMAIN s : s[i] <= e})
  IN  CASE f = "sum" -> Num(PySum(s))
        [] f = "min" -> IF n = 0 THEN [t |-> "raise", v |-> "ValueError"]
                        ELSE Num(SeqMin(s))
        [] f = "mean" -> IF n = 0 THEN [t |-> "nan"] ELSE Float(PySum(s), n)
        [] f = "median" -> IF n = 0 THEN [t |-> "nan"]
                           ELSE IF n % 2 = 1 THEN Float(Kth((n + 1) \div 2), 1)
                           ELSE Float(Kth(n \div 2) + Kth(n \div 2 + 1), 2)
        [] f = "size" -> Num(n)

\* np.arange(n).reshape(r, c): the integers 0 .. n - 1 laid out row by row in
\* a new r x c array (n = r * c)
NpArange(n, r, c) == Arr([i \in 1 .. r |-> [j \in 1 .. c |-> (i - 1) * c + (j - 1)]])

\* Z[i, j] = v on a two-dimensional array: the array itself changes, at that
\* row and column only
SetItem2D(a, i, j, v) == Arr([a.v EXCEPT ![i + 1][j + 1] = v])

\* a.dot(b): the matrix product, a new array
Dot(a, b) ==
  Arr([i \in DOMAIN a.v |->
        [j \in DOMAIN b.v[1] |->
          PySum([k \in DOMAIN b.v |-> a.v[i][k] * b.v[k][j]])]])

\* np.transpose(a): rows and columns exchanged, a new array
Transpose(a) ==
  Arr([j \in DOMAIN a.v[1] |-> [i \in DOMAIN a.v |-> a.v[i][j]]])

\* elementwise floor division
FloorDiv(c, n) ==
  IF c.t = "ndarray" THEN Arr([i \in DOMAIN c.v |-> Float(c.v[i] \div n, 1)])
  ELSE [t |-> "raise", v |-> "TypeError"]

\* c / n: elementwise on an array; a list has no division
TrueDiv(c, n) ==
  IF c.t = "ndarray" THEN Arr([i \in DOMAIN c.v |-> Float(c.v[i], n)])
  ELSE [t |-> "raise", v |-> "TypeError"]

(***************************************************************************)
(* Notebook 02: Python data types and methods.                             *)
(***************************************************************************)
TypesEmpty ==
  [n \in
  {"d", "e", "f", "x", "y", "zipped", "Keys", "Values", "antonyms",
   "antonyms2", "synonyms", "newdict", "np", "Z", "Zmin", "Zmax",
   "race", "key", "value", "countries", "xscaled"}
   |-> Unbound]

d_literal == <<"a", "b", "c">>
antonyms_literal == <<<<"hot", "cold">>, <<"fast", "slow">>, <<"good", "bad">>>>
synonyms_literal == <<<<"hot", "very warm">>, <<"fast", "quick">>, <<"good", "fine">>>>

\* d = ('a', 'b', 'c'); print(d)
TupleCreate(b) ==
  LET b1 == [b EXCEPT !.d = Tup(d_literal)] IN Ok(b1, <<b1.d>>)

\* d[2] = 'z'
TupleSetItem(b) ==
  IF ~IsBound(b, "d") THEN Raise(b, <<>>, "NameError")
  ELSE LET r == SetItem(b.d, 2, "z")
       IN  [ns |-> [b EXCEPT !.d = r.val], out |-> <<>>, err |-> r.err]

\* d.remove['c']
TupleRemoveAttr(b) ==
  IF ~IsBound(b, "d") THEN Raise(b, <<>>, "NameError")
  ELSE LET r == RemoveSubscript(b.d, "c")
       IN  [ns |-> [b EXCEPT !.d = r.val], out |-> <<>>, err |-> r.err]

\* The statements e = list(d); e.remove(c) applied to a namespace.
ListOf(b) == [b EXCEPT !.e = PyList(b.d)]
RemoveFrom(b, c) == [b EXCEPT !.e = Lst(RemoveFirst(b.e.v, c))]
TupleOf(b) == [b EXCEPT !.f = PyTuple(b.e)]

\* print(d); e = list(d); e.remove('c'); print(e)
ListRemove(b) ==
  IF ~IsBound(b, "d") THEN Raise(b, <<>>, "NameError")
  ELSE LET b1 == ListOf(b)
       IN  IF ~Contains(b1.e.v, "c") THEN Raise(b1, <<b.d>>, "ValueError")
           ELSE LET b2 == RemoveFrom(b1, "c") IN Ok(b2, <<b.d, b2.e>>)

\* f = tuple(e); print(f)
TupleFromList(b) ==
  IF ~IsBound(b, "e") THEN Raise(b, <<>>, "NameError")
  ELSE LET b1 == TupleOf(b) IN Ok(b1, <<b1.f>>)

\* zipped = zip(x, y) and list(zipped), which exhausts the iterator.
ZipOf(b) == [b EXCEPT !.zipped = ZipIter(PyZip(b.x.v, b.y.v))]
Drain(b) == [b EXCEPT !.zipped = ZipIter(<<>>)]

\* x = [1,2,3]; y = [4,5,6]; zipped = zip(x,y); print(list(zipped))
ZipLists(b) ==
  LET b1 == ZipOf([b EXCEPT !.x = Lst(<<1, 2, 3>>), !.y = Lst(<<4, 5, 6>>)])
  IN  Ok(Drain(b1), <<Lst(b1.zipped.v)>>)

\* Keys = [...]; Values = [...]; antonyms2 = dict(zip(Keys,Values)); print(antonyms2)
DictFromZip(b, s) ==
  LET b1 == [b EXCEPT !.Keys = Lst(<<"hot", "fast", "good">>), !.Values = Lst(<<"cold", "slow", "bad">>)]
      b2 == [b1 EXCEPT !.antonyms2 = PyDict(PyZip(b1.Keys.v, b1.Values.v))]
  IN  Ok(b2, <<DictRepr(b2.antonyms2, s)>>)

\* antonyms = {'hot': 'cold', 'fast': 'slow', 'good': 'bad'}; print(antonyms)
AntonymsCreate(b, s) ==
  LET b1 == [b EXCEPT !.antonyms = Dict(antonyms_literal)]
  IN  Ok(b1, <<DictRepr(b1.antonyms, s)>>)

\* A plus that joins two dictionaries as update would.
PlusDictsMerged(b) ==
  LET b1 == [b EXCEPT !.antonyms = Dict(antonyms_literal),
                      !.synonyms = Dict(synonyms_literal)]
  IN  Ok(b1, <<Dict(DictUpdate(b1.antonyms.v, b1.synonyms.v))>>)

\* antonyms = {...}; synonyms = {...}; antonyms+synonyms
PlusDicts(b) ==
  Raise([b EXCEPT !.antonyms = Dict(antonyms_literal),
                  !.synonyms = Dict(synonyms_literal)], <<>>, "TypeError")

\* newdict = {}; newdict.update(antonyms); newdict.update(synonyms); newdict
MergeSynonyms(b, s) ==
  LET b0 == [b EXCEPT !.newdict = Dict(<<>>)] IN
  IF ~IsBound(b, "antonyms") THEN Raise(b0, <<>>, "NameError")
  ELSE LET b1 == [b0 EXCEPT !.newdict = Dict(DictUpdate(b0.newdict.v, b.antonyms.v))] IN
       IF ~IsBound(b, "synonyms") THEN Raise(b1, <<>>, "NameError")
       ELSE LET b2 == [b1 EXCEPT !.newdict =
                          Dict(DictUpdate(b1.newdict.v, b.synonyms.v))]
            IN  Ok(b2, <<DictRepr(b2.newdict, s)>>)

\* antonyms = {...}; antonyms2 = {'blue': 'cold', 'red': 'hot'}; newdict = {};
\* newdict.update(antonyms); newdict.update(antonyms2); newdict
MergeAntonyms2(b, s) ==
  LET b1 == [b EXCEPT !.antonyms = Dict(antonyms_literal),
                      !.antonyms2 = Dict(<<<<"blue", "cold">>, <<"red", "hot">>>>),
                      !.newdict = Dict(<<>>)]
      b2 == [b1 EXCEPT !.newdict = Dict(DictUpdate(
                 DictUpdate(b1.newdict.v, b1.antonyms.v), b1.antonyms2.v))]
  IN  Ok(b2, <<DictRepr(b2.newdict, s)>>)

\* import numpy as np
ImportNumpy(b) == Ok([b EXCEPT !.np = Module], <<>>)

\* Z = np.random.random((10,10)); Zmin, Zmax = Z.min(), Z.max(); print(Zmin, Zmax)
\* z is what the generator draws.
RandomMinMax(b, z) ==
  IF ~IsBound(b, "np") THEN Raise(b, <<>>, "NameError")
  ELSE LET b1 == [b EXCEPT !.Z = Arr(z), !.Zmin = Num(SeqMin(z)),
                           !.Zmax = Num(SeqMax(z))]
       IN  Ok(b1, <<b1.Zmin, b1.Zmax>>)

TypesCells ==
  {"TupleCreate", "TupleSetItem", "TupleRemoveAttr", "ListRemove",
   "TupleFromList", "ZipLists", "DictFromZip", "AntonymsCreate", "PlusDicts",
   "MergeSynonyms", "MergeAntonyms2", "ImportNumpy", "RandomMinMax"}

\* The outcome of executing cell c in namespace b, in a process whose hash
\* seed is s and whose random generator draws z.
RunTypes(c, b, s, z) ==
  CASE c = "TupleCreate" -> TupleCreate(b)
    [] c = "TupleSetItem" -> TupleSetItem(b)
    [] c = "TupleRemoveAttr" -> TupleRemoveAttr(b)
    [] c = "ListRemove" -> ListRemove(b)
    [] c = "TupleFromList" -> TupleFromList(b)
    [] c = "ZipLists" -> ZipLists(b)
    [] c = "DictFromZip" -> DictFromZip(b, s)
    [] c = "AntonymsCreate" -> AntonymsCreate(b, s)
    [] c = "PlusDicts" -> PlusDicts(b)
    [] c = "MergeSynonyms" -> MergeSynonyms(b, s)
    [] c = "MergeAntonyms2" -> MergeAntonyms2(b, s)
    [] c = "ImportNumpy" -> ImportNumpy(b)
    [] c = "RandomMinMax" -> RandomMinMax(b, z)

\* The kernel executes one cell of notebook 02 and shows its outcome.
Commit(c, o) ==
  /\ ns' = o.ns
  /\ out' = [cell |-> c, text |-> o.out]
  /\ err' = o.err
  /\ UNCHANGED <<env, pc, inflight, sent, calls, last, runs, seed, arg>>

NoDraw == [i \in 1 .. RandCells |-> 0]
ExecTypes(c) == Commit(c, RunTypes(c, ns, seed, NoDraw))

RunTupleCreate == pc = "idle" /\ ExecTypes("TupleCreate")
RunTupleSetItem == pc = "idle" /\ ExecTypes("TupleSetItem")
RunTupleRemoveAttr == pc = "idle" /\ ExecTypes("TupleRemoveAttr")
RunListRemove == pc = "idle" /\ ExecTypes("ListRemove")
RunTupleFromList == pc = "idle" /\ ExecTypes("TupleFromList")
RunZipLists == pc = "idle" /\ ExecTypes("ZipLists")
RunDictFromZip == pc = "idle" /\ ExecTypes("DictFromZip")
RunAntonymsCreate == pc = "idle" /\ ExecTypes("AntonymsCreate")
RunPlusDicts == pc = "idle" /\ ExecTypes("PlusDicts")
RunMergeSynonyms == pc = "idle" /\ ExecTypes("MergeSynonyms")
RunMergeAntonyms2 == pc = "idle" /\ ExecTypes("MergeAntonyms2")
RunImportNumpy == pc = "idle" /\ ExecTypes("ImportNumpy")
RunRandomMinMax ==
  /\ pc = "idle"
  /\ \E z \in Draws : Commit("RandomMinMax", RunTypes("RandomMinMax", ns, seed, z))

NoOut == [cell |-> "none", text |-> <<>>]

InitTypes ==
  /\ ns = TypesEmpty
  /\ env = Unbound
  /\ out = NoOut
  /\ err = "None"
  /\ pc = "idle"
  /\ inflight = {}
  /\ sent = 0
  /\ calls = 0
  /\ last = Unbound
  /\ runs = 0
  /\ seed \in Seeds
  /\ arg = Unbound

NextTypes ==
  \/ RunTupleCreate
  \/ RunTupleSetItem
  \/ RunTupleRemoveAttr
  \/ RunListRemove
  \/ RunTupleFromList
  \/ RunZipLists
  \/ RunDictFromZip
  \/ RunAntonymsCreate
  \/ RunPlusDicts
  \/ RunMergeSynonyms
  \/ RunMergeAntonyms2
  \/ RunImportNumpy
  \/ RunRandomMinMax

SpecTypes == InitTypes /\ [][NextTypes]_vars

(***************************************************************************)
(* The tuple-to-list-to-tuple statements and zip as programs of their own, *)
(* run on inputs drawn from bounded sets: e = list(d); e.remove(c);        *)
(* f = tuple(e), and zipped = zip(x, y); list(zipped).                     *)
(***************************************************************************)
MaxVal == 2        \* list elements drawn for zip are 1 .. MaxVal

Letters == {"a", "b", "c"}
BSeq(S, n) == UNION {[1 .. k -> S] : k \in 0 .. n}

\* cityPlanners_dict = {"name": ..., ..., "books": [...]}
cityPlanners_literal ==
  <<<<"name", "Jane Jacobs">>, <<"year of birth", 1916>>, <<"year of death", 2006>>,
    <<"place of birth", "Pennsylvania">>,
    <<"books", Lst(<<"The Death and Life of Great American Cities",
                     "Cities and the Wealth of Nations", "Dark Age Ahead",
                     "Eyes on the Street: The Life of Jane Jacobs",
                     "The Economy of Cities">>)>>>>

\* race = {'white': 0.643, ...}, the fractions in units of 0.00001
race_literal ==
  <<<<"white", 64300>>, <<"african_american", 6800>>, <<"asian", 21000>>,
    <<"other", 7900>>>>

\* Dictionaries drawn as inputs: up to MaxLen items with distinct keys, and the
\* dictionaries the cells write out.
DictInputs ==
  {it \in BSeq({"hot", "fast", "blue"} \X {"cold", "quick"}, MaxLen) :
     \A i, j \in DOMAIN it : it[i][1] = it[j][1] => i = j}
  \cup {antonyms_literal, synonyms_literal, <<<<"blue", "cold">>, <<"red", "hot">>>>}

InitOps ==
  /\ \/ \E dd \in BSeq(Letters, MaxLen), c \in Letters :
          /\ arg = [d |-> dd, c |-> c]
          /\ ns = [TypesEmpty EXCEPT !.d = Tup(dd)]
          /\ pc = "list"
     \/ \E xs \in BSeq(1 .. MaxVal, MaxLen), ys \in BSeq(1 .. MaxVal, MaxLen) :
          /\ arg = [x |-> xs, y |-> ys]
          /\ ns = [TypesEmpty EXCEPT !.x = Lst(xs), !.y = Lst(ys)]
          /\ pc = "zip"
     \/ \E a \in DictInputs, b \in DictInputs :
          /\ arg = [a |-> a, b |-> b]
          /\ ns = [TypesEmpty EXCEPT !.antonyms = Dict(a), !.synonyms = Dict(b)]
          /\ pc = "merge"
     \/ \E a \in
            (DictInputs \X {"hot", "fast", "blue"} \X {"cold", "quick"})
            \cup {<<<<>>, "new", "item">>,
                  <<<<<<"new", "item">>>>, "next", "thing">>,
                  <<antonyms_literal, "fast", "gorge">>,
                  <<DictUpdate(antonyms_literal, <<<<"blue", "cold">>, <<"red", "hot">>>>),
                    "red", "hot">>,
                  <<cityPlanners_literal, "place of birth", "San Francisco">>,
                  <<DictSet(cityPlanners_literal, "place of birth", "San Francisco"),
                    "gender", "Female">>} :
          /\ arg = [dict |-> a[1], key |-> a[2], val |-> a[3]]
          /\ ns = [TypesEmpty EXCEPT !.newdict = Dict(a[1])]
          /\ pc = "assign"
     \/ \E r \in
            {it \in BSeq({"white", "asian", "other"} \X (0 .. MaxVal), MaxLen) :
               \A i, j \in DOMAIN it : it[i][1] = it[j][1] => i = j}
            \cup {race_literal} :
          /\ arg = [race |-> r]
          /\ ns = [TypesEmpty EXCEPT !.race = Dict(r)]
          /\ pc = "loop"
     \/ \E a \in
            (BSeq({"Canada", "Japan"}, MaxLen) \X ({"Japan", "Iran"} \X {"Japan", "Iran"})
               \X {it \in BSeq({"hot", "cold"} \X {"hot", "cold"}, MaxLen) :
                     \A i, j \in DOMAIN it : it[i][1] = it[j][1] => i = j}
               \X {"hot", "cold"})
            \cup ({<<"Afghanistan", "Canada", "Denmark", "Japan">>} \X {<<"Japan", "Iran">>}
                    \X {race_literal} \X {"asian", "latino"}) :
          /\ arg = [countries |-> a[1], item |-> a[2][1], item2 |-> a[2][2],
                   race |-> a[3], key |-> a[4]]
          /\ ns = TypesEmpty
          /\ pc = "in"
     \/ \E xs \in BSeq(0 .. MaxVal, MaxLen) \cup {<<1, 2, 3, 4, 5>>, <<5, 1, 4, 2>>} :
          /\ arg = [xs |-> xs]
          /\ ns = [TypesEmpty EXCEPT !.np = Module, !.x = Lst(xs)]
          /\ pc = "array"
     \/ \E i \in 0 .. 2, j \in 0 .. 2, v \in (0 .. MaxVal) \cup {9} :
          /\ arg = [i |-> i, j |-> j, val |-> v]
          /\ ns = [TypesEmpty EXCEPT !.np = Module]
          /\ pc = "Zarange"
  /\ env = Unbound
  /\ out = NoOut
  /\ err = "None"
  /\ inflight = {}
  /\ sent = 0
  /\ calls = 0
  /\ last = Unbound
  /\ runs = 0
  /\ seed = 0

\* e = list(d)
OpList ==
  /\ pc = "list"
  /\ ns' = ListOf(ns)
  /\ pc' = "remove"
  /\ UNCHANGED <<env, out, err, inflight, sent, calls, last, runs, seed, arg>>

\* e.remove(c): ValueError when c is not in e
OpRemove ==
  /\ pc = "remove"
  /\ IF Contains(ns.e.v, arg.c)
       THEN ns' = RemoveFrom(ns, arg.c) /\ pc' = "tuple" /\ err' = err
       ELSE ns' = ns /\ pc' = "done" /\ err' = "ValueError"
  /\ UNCHANGED <<env, out, inflight, sent, calls, last, runs, seed, arg>>

\* f = tuple(e)
OpTuple ==
  /\ pc = "tuple"
  /\ ns' = TupleOf(ns)
  /\ pc' = "done"
  /\ UNCHANGED <<env, out, err, inflight, sent, calls, last, runs, seed, arg>>

\* zipped = zip(x, y)
OpZip ==
  /\ pc = "zip"
  /\ ns' = ZipOf(ns)
  /\ pc' = "drain"
  /\ UNCHANGED <<env, out, err, inflight, sent, calls, last, runs, seed, arg>>

\* print(list(zipped))
OpDrain ==
  /\ pc = "drain"
  /\ out' = [cell |-> "ZipLists", text |-> <<Lst(ns.zipped.v)>>]
  /\ ns' = Drain(ns)
  /\ pc' = "done"
  /\ UNCHANGED <<env, err, inflight, sent, calls, last, runs, seed, arg>>

\* newdict = {}; newdict.update(a); newdict.update(b); newdict
OpMerge ==
  /\ pc = "merge"
  /\ LET b0 == [ns EXCEPT !.newdict = Dict(<<>>)]
         b1 == [b0 EXCEPT !.newdict = Dict(DictUpdate(b0.newdict.v, b0.antonyms.v))]
         b2 == [b1 EXCEPT !.newdict = Dict(DictUpdate(b1.newdict.v, b1.synonyms.v))]
     IN  ns' = b2 /\ out' = [cell |-> "Merge", text |-> <<b2.newdict>>]
  /\ pc' = "done"
  /\ UNCHANGED <<env, err, inflight, sent, calls, last, runs, seed, arg>>

\* d[k] = v; d
OpSetItem ==
  /\ pc = "assign"
  /\ LET b1 == [ns EXCEPT !.newdict = Dict(DictSet(ns.newdict.v, arg.key, arg.val))]
     IN  ns' = b1 /\ out' = [cell |-> "SetItem", text |-> <<b1.newdict>>]
  /\ pc' = "done"
  /\ UNCHANGED <<env, err, inflight, sent, calls, last, runs, seed, arg>>

\* d.update({k: v}); d
OpUpdateItem ==
  /\ pc = "assign"
  /\ LET b1 == [ns EXCEPT !.newdict =
                    Dict(DictUpdate(ns.newdict.v, <<<<arg.key, arg.val>>>>))]
     IN  ns' = b1 /\ out' = [cell |-> "UpdateItem", text |-> <<b1.newdict>>]
  /\ pc' = "done"
  /\ UNCHANGED <<env, err, inflight, sent, calls, last, runs, seed, arg>>

\* del d[k]; d, which raises KeyError when k is not a key of d
OpDel ==
  /\ pc = "assign"
  /\ IF arg.key \in DictKeys(ns.newdict.v)
       THEN LET b1 == [ns EXCEPT !.newdict = Dict(DictDel(ns.newdict.v, arg.key))]
            IN  /\ ns' = b1
                /\ out' = [cell |-> "Del", text |-> <<b1.newdict>>]
                /\ err' = err
       ELSE /\ ns' = ns
            /\ out' = [cell |-> "Del", text |-> <<>>]
            /\ err' = "KeyError"
  /\ pc' = "done"
  /\ UNCHANGED <<env, inflight, sent, calls, last, runs, seed, arg>>

\* for key in race.keys(): print(key, race[key])
OpLoopKeys ==
  /\ pc = "loop"
  /\ LET ks == KeysInOrder(ns.race.v) IN
     /\ ns' = IF ks = <<>> THEN ns ELSE [ns EXCEPT !.key = Str(ks[Len(ks)])]
     /\ out' = [cell |-> "LoopKeys",
                text |-> [i \in DOMAIN ks |-> <<ks[i], DictGet(ns.race.v, ks[i])>>]]
  /\ pc' = "done"
  /\ UNCHANGED <<env, err, inflight, sent, calls, last, runs, seed, arg>>

\* for value in race.keys(): race[value] = round(100 * race[value], 2)
\* print(race)
OpPercent ==
  /\ pc = "loop"
  /\ LET ks == KeysInOrder(ns.race.v)
         b1 == [ns EXCEPT !.race = Dict(PercentLoop(ns.race.v, ks))]
         b2 == IF ks = <<>> THEN b1 ELSE [b1 EXCEPT !.value = Str(ks[Len(ks)])]
     IN  ns' = b2 /\ out' = [cell |-> "Percent", text |-> <<DictRepr(b2.race, seed)>>]
  /\ pc' = "done"
  /\ UNCHANGED <<env, err, inflight, sent, calls, last, runs, seed, arg>>

\* countries = [...]; race = {...}
\* print(item in countries); print(item2 in countries)
\* print(key in race); print(key not in race)
OpIn ==
  /\ pc = "in"
  /\ LET b1 == [ns EXCEPT !.countries = Lst(arg.countries), !.race = Dict(arg.race)]
     IN  /\ ns' = b1
         /\ out' = [cell |-> "In",
                    text |-> <<PyIn(arg.item, b1.countries), PyIn(arg.item2, b1.countries),
                               PyIn(arg.key, b1.race), PyNotIn(arg.key, b1.race)>>]
  /\ pc' = "done"
  /\ UNCHANGED <<env, err, inflight, sent, calls, last, runs, seed, arg>>

\* y = np.array(x)
OpArray ==
  /\ pc = "array"
  /\ ns' = [ns EXCEPT !.y = NpArray(ns.x)]
  /\ pc' = "stats"
  /\ UNCHANGED <<env, out, err, inflight, sent, calls, last, runs, seed, arg>>

\* the cell f(x) and the cell f(y) under it, for f one of sum, min, np.mean,
\* np.median, np.size: each displays its value
OpReduce ==
  /\ pc = "stats"
  /\ \E f \in {"sum", "min", "mean", "median", "size"} :
       LET rx == Reduce(f, ns.x)
           ry == Reduce(f, ns.y)
       IN  /\ out' = [cell |-> f, text |-> <<rx, ry>>]
           /\ err' = IF ry.t = "raise" THEN ry.v ELSE "None"
  /\ UNCHANGED <<ns, env, pc, inflight, sent, calls, last, runs, seed, arg>>

\* x / 10, or y / 10
OpDiv ==
  /\ pc = "stats"
  /\ \E v \in {"x", "y"} :
       LET r == TrueDiv(ns[v], 10)
       IN  /\ out' = [cell |-> "Div", text |-> <<v, r>>]
           /\ err' = IF r.t = "raise" THEN r.v ELSE "None"
  /\ UNCHANGED <<ns, env, pc, inflight, sent, calls, last, runs, seed, arg>>

\* xscaled = [ z/10 for z in x]; xscaled
OpScaled ==
  /\ pc = "stats"
  /\ LET b1 == [ns EXCEPT !.xscaled = Lst([i \in DOMAIN ns.x.v |-> Float(ns.x.v[i], 10)])]
     IN  ns' = b1 /\ out' = [cell |-> "Scaled", text |-> <<b1.xscaled>>]
  /\ err' = "None"
  /\ UNCHANGED <<env, pc, inflight, sent, calls, last, runs, seed, arg>>

\* The cells of notebook 02 that bind or change Z, in the order of the
\* notebook from the first np.arange cell on, with the cells that display its
\* shape, size, sum and product, and the two linear algebra cells.  The other
\* cells in between display a value and bind nothing, or bind other names.

\* print(Z), a cell that shows Z and does not bind it
OpZPrint ==
  /\ pc \in {"Zarange", "Zarange2"}
  /\ out' = [cell |-> "ZArange", text |-> IF IsBound(ns, "Z") THEN <<ns.Z>> ELSE <<>>]
  /\ err' = IF IsBound(ns, "Z") THEN "None" ELSE "NameError"
  /\ pc' = IF pc = "Zarange" THEN "Zset" ELSE "Zdot"
  /\ UNCHANGED <<ns, env, inflight, sent, calls, last, runs, seed, arg>>

\* Z = np.arange(9).reshape(3,3); print(Z): the cell of the array section and,
\* further down, the same cell at the head of the linear algebra section
OpZArange ==
  /\ pc \in {"Zarange", "Zarange2"}
  /\ LET b1 == [ns EXCEPT !.Z = NpArange(9, 3, 3)]
     IN  ns' = b1 /\ out' = [cell |-> "ZArange", text |-> <<b1.Z>>]
  /\ err' = "None"
  /\ pc' = IF pc = "Zarange" THEN "Zset" ELSE "Zdot"
  /\ UNCHANGED <<env, inflight, sent, calls, last, runs, seed, arg>>

\* Z[0,2] = 9; Z
OpZSet ==
  /\ pc = "Zset"
  /\ IF ~IsBound(ns, "Z")
       THEN ns' = ns /\ out' = [cell |-> "ZSet", text |-> <<>>] /\ err' = "NameError"
       ELSE LET b1 == [ns EXCEPT !.Z = SetItem2D(ns.Z, arg.i, arg.j, arg.val)]
            IN  ns' = b1 /\ out' = [cell |-> "ZSet", text |-> <<b1.Z>>] /\ err' = "None"
  /\ pc' = "Zshow"
  /\ UNCHANGED <<env, inflight, sent, calls, last, runs, seed, arg>>

\* Z.shape; Z.size; Z+Z; Z*Z: four cells that display a value and bind nothing
OpZShow ==
  /\ pc = "Zshow"
  /\ IF ~IsBound(ns, "Z")
       THEN out' = [cell |-> "ZShow", text |-> <<>>] /\ err' = "NameError"
       ELSE LET z == ns.Z.v
                rows == Len(z)
                cols == Len(z[1])
            IN  /\ out' = [cell |-> "ZShow",
                           text |-> <<Tup(<<rows, cols>>), Num(rows * cols),
                                      Arr([i \in DOMAIN z |-> [j \in DOMAIN z[i] |-> z[i][j] + z[i][j]]]),
                                      Arr([i \in DOMAIN z |-> [j \in DOMAIN z[i] |-> z[i][j] * z[i][j]]])>>]
                /\ err' = "None"
  /\ pc' = "Zrandom"
  /\ UNCHANGED <<ns, env, inflight, sent, calls, last, runs, seed, arg>>

\* Z = np.random.random((10,10)); Zmin, Zmax = Z.min(), Z.max(); print(Zmin, Zmax)
OpZRandom ==
  /\ pc = "Zrandom"
  /\ \E z \in Draws :
       LET o == RandomMinMax(ns, z)
       IN  ns' = o.ns /\ out' = [cell |-> "ZRandom", text |-> o.out] /\ err' = o.err
  /\ pc' = "Zarange2"
  /\ UNCHANGED <<env, inflight, sent, calls, last, runs, seed, arg>>

\* Z.dot(Z)
OpZDot ==
  /\ pc = "Zdot"
  /\ out' = [cell |-> "ZDot", text |-> <<Dot(ns.Z, ns.Z)>>]
  /\ err' = "None"
  /\ pc' = "Ztranspose"
  /\ UNCHANGED <<ns, env, inflight, sent, calls, last, runs, seed, arg>>

\* np.transpose(Z)
OpZTranspose ==
  /\ pc = "Ztranspose"
  /\ out' = [cell |-> "ZTranspose", text |-> <<Transpose(ns.Z)>>]
  /\ err' = "None"
  /\ pc' = "done"
  /\ UNCHANGED <<ns, env, inflight, sent, calls, last, runs, seed, arg>>

NextOps ==
  \/ OpList \/ OpRemove \/ OpTuple \/ OpZip \/ OpDrain
  \/ OpMerge \/ OpSetItem \/ OpUpdateItem \/ OpDel
  \/ OpLoopKeys \/ OpPercent
  \/ OpIn
  \/ OpArray \/ OpReduce \/ OpDiv \/ OpScaled
  \/ OpZArange \/ OpZSet \/ OpZShow \/ OpZRandom \/ OpZDot \/ OpZTranspose

SpecOps == InitOps /\ [][NextOps]_vars

(***************************************************************************)
(* Notebook 13: APIs and geocoding.                                        *)
(***************************************************************************)
MaxRuns == 6       \* cell executions in one kernel session

GeoEmpty ==
  [n \in
  {"json", "requests", "pp", "Geocoder", "os", "Directions", "HTTPBasicAuth",
   "endpoint", "address", "params", "url", "response", "results", "data",
   "r", "coords", "geocoder", "first", "features", "service", "origin",
   "destination", "driving_routes", "apikey", "request_url", "request_obj"}
   |-> Unbound]

Obj(doc) == [t |-> "json", v |-> doc]     \* a parsed JSON document

\* Literals of the cells.  A string whose characters matter is a sequence of
\* characters; any other string is one token.
Token == "pk.eyJ1IjoiY3AyNTVkZW1vIiwiYSI6ImRPcTlnTUEifQ.3C0d0Nk_rcwV-8JF29PU-w"
endpoint_literal == <<"https://api.mapbox.com/geocoding/v5/mapbox.places/">>
address_literal == <<"W", "u", "r", "s", "t", "e", "r", " ", "H", "a", "l", "l">>
params_literal == <<<<"limit", "1">>, <<"access_token", Token>>>>
fcc_url_literal ==
  <<"https://geo.fcc.gov/api/census/block/find?latitude=34.537094&longitude=-82.630303&format=json">>
apikey_literal == "c4892baf28a2c18b2d3cd9ce9f68ebacecd2a970"
freehouse_address == "2700 Bancroft Way, Berkeley, CA 94704"
newyork_address == "120 East 13th Street, Manhattan, New York, New York 10003"
\* The two coordinates of the New York address, latitude first.
ReverseNY_swapped == [lon |-> "40.733003", lat |-> "-73.988893"]
\* geocoder.reverse(lon=-73.988893, lat=40.733003)
ReverseNY_args == [lon |-> "-73.988893", lat |-> "40.733003"]
ReverseFreehouse_args == [lon |-> "-122.25425", lat |-> "37.868969"]

\* The URL as the notebook documents it: <endpoint>Wurster+Hall.json?
DocumentedPath ==
  endpoint_literal \o <<"W", "u", "r", "s", "t", "e", "r", "+", "H", "a", "l", "l">>
                   \o <<".json", "?">>

(***************************************************************************)
(* requests: how a URL is prepared.                                        *)
(***************************************************************************)
\* Characters that may not stay in a URL path as they are.
Special == {" "}

\* requests quotes the path: a special character becomes its percent escape.
Quote(str) == [i \in 1 .. Len(str) |-> IF str[i] = " " THEN "%20" ELSE str[i]]

\* urlencode(params): key=value pairs in the dictionary's order, joined by &.
RECURSIVE UrlEncode(_)
UrlEncode(items) ==
  IF items = <<>> THEN <<>>
  ELSE <<Head(items)[1], "=", Head(items)[2]>>
       \o (IF Tail(items) = <<>> THEN <<>> ELSE <<"&">>)
       \o UrlEncode(Tail(items))

\* requests.Request('GET', base, params=params).prepare().url
PrepareUrl(base, items) == Quote(base) \o <<"?">> \o UrlEncode(items)

(***************************************************************************)
(* The vendors.  What a service knows is what the notebook recorded of it; *)
(* whether it answers, fails or finds nothing is its own choice.           *)
(***************************************************************************)
Feature(name, lon, lat) ==
  [place_name |-> name,
   geometry |-> [type |-> "Point", coordinates |-> <<lon, lat>>]]
FeatureCollection(q, fs) == [type |-> "FeatureCollection", query |-> q, features |-> fs]

FreehouseFeature ==
  Feature("2700 Bancroft Way, Berkeley, California 94704, United States",
          "-122.25425", "37.868969")
NewYorkFeature ==
  Feature("120 East 13th Street, Manhattan, New York, New York 10003, United States",
          "-73.988893", "40.733003")
NewYorkReverse ==
  <<NewYorkFeature,
    Feature("Greenwich Village, Manhattan, New York, New York 10003, United States",
            "-74.0029", "40.7284"),
    Feature("Manhattan, 10003, New York, New York, United States", "-73.9597", "40.7903"),
    Feature("New York, New York 10003, United States", "-73.99", "40.73"),
    Feature("New York, New York, United States", "-73.9808", "40.7648"),
    Feature("New York, United States", "-76.301667", "42.685498"),
    Feature("United States", "-97.922211", "39.381266")>>
DrivingRoute ==
  [place_name |-> "route",
   geometry |-> [type |-> "LineString", coordinates |-> <<"45.57994", "-122.72832">>]]
FccRecord ==
  [Block |-> [FIPS |-> <<4, 5, 0, 0, 7, 0, 0, 0, 3, 0, 0, 2, 0, 2, 4>>],
   County |-> [FIPS |-> <<4, 5, 0, 0, 7>>, name |-> "Anderson"],
   State |-> [FIPS |-> <<4, 5>>, code |-> "SC", name |-> "South Carolina"],
   status |-> "OK"]

\* A request on the wire.
Req(api, q, token) == [api |-> api, q |-> q, token |-> token]

\* The features a geocoding service holds for a query.  A GET of the prepared
\* URL is a forward query for the address in its path.
Found(req) ==
  IF req.api = "GET" THEN <<Feature("Wurster Hall", "lon of Wurster Hall", "lat of Wurster Hall")>>
  ELSE IF req.api = "forward" THEN
    (IF req.q = [address |-> freehouse_address] THEN <<FreehouseFeature>>
     ELSE IF req.q = [address |-> newyork_address] THEN <<NewYorkFeature>>
     ELSE <<>>)
  ELSE IF req.api = "reverse" THEN
    (IF req.q = ReverseNY_args THEN NewYorkReverse
     ELSE IF req.q = ReverseFreehouse_args THEN <<FreehouseFeature>>
     ELSE <<>>)
  ELSE <<DrivingRoute>>

JsonBody(doc) == [fmt |-> "json", doc |-> doc]
RawBody(txt) == [fmt |-> "text", doc |-> [message |-> txt]]
Response(req, status, body) ==
  [t |-> "response", req |-> req, status |-> status, body |-> body]

\* The answers a request can get.
Answers(req) ==
  {Response(req, 503, RawBody("Service Unavailable"))} \cup
  (IF req.api \in {"forward", "reverse"}
      \/ (req.api = "GET" /\ req.q.url # fcc_url_literal) THEN
     {Response(req, 200, JsonBody(FeatureCollection(req.q, Found(req)))),
      Response(req, 200, JsonBody(FeatureCollection(req.q, <<>>)))}
   ELSE IF req.api = "directions" THEN
     (IF req.token = "none"
        THEN {Response(req, 401, JsonBody([message |-> "Not Authorized - No Token"]))}
        ELSE {Response(req, 200, JsonBody(FeatureCollection(req.q, Found(req))))})
   ELSE IF req.api = "GET" THEN {Response(req, 200, JsonBody(FccRecord))}
   ELSE {Response(req, 200, RawBody("citysdk"))})

\* json.loads(text), response.json(), response.geojson(): the document of a JSON
\* body, ValueError for any other body.
JsonLoads(body) ==
  IF body.fmt = "json" THEN [err |-> "None", val |-> Obj(body.doc)]
  ELSE [err |-> "ValueError", val |-> Unbound]

\* doc[key] of a parsed document.
HasKey(o, k) == k \in DOMAIN o.v

\* repr of a response: <Response [status]>
ResponseRepr(resp) == <<"Response", resp.status>>

(***************************************************************************)
(* The cells of notebook 13.  A cell that makes no HTTP call is an         *)
(* operator from the namespace b and the environment e to its outcome.  A  *)
(* cell that makes one has two parts: what it does up to the call (the     *)
(* request it issues, or the error that stops it before) and what it does  *)
(* with the response a once the call has returned.                         *)
(***************************************************************************)
GOk(b, e, o) == [ns |-> b, env |-> e, out |-> o, err |-> "None"]
GRaise(b, e, o, x) == [ns |-> b, env |-> e, out |-> o, err |-> x]
Stopped(b, x) == [ready |-> FALSE, ns |-> b, err |-> x]
Calling(b, req) == [ready |-> TRUE, ns |-> b, req |-> req]

\* What a cell would do with response.raise_for_status() after its call.
BindResponseChecked(b, e, a) ==
  IF a.status >= 400 THEN GRaise(b, e, <<>>, "HTTPError")
  ELSE GOk([b EXCEPT !.response = a], e, <<>>)

\* response = <the answer of the call>, whatever its status; the cell ends there
\* (geocoder.forward of the Freehouse, service.directions, requests.post).
BindResponse(b, e, a) == GOk([b EXCEPT !.response = a], e, <<>>)

\* response = requests.get(url); results = response.text;
\* data = json.loads(results); print(data)
DownloadReturn(b, e, a) ==
  LET b1 == [b EXCEPT !.response = a, !.results = Str(a.body)] IN
  IF ~IsBound(b, "json") THEN GRaise(b1, e, <<>>, "NameError")
  ELSE LET j == JsonLoads(b1.results.v) IN
       IF j.err # "None" THEN GRaise(b1, e, <<>>, j.err)
       ELSE GOk([b1 EXCEPT !.data = j.val], e, <<j.val>>)

\* What the cell would do if it looked at the features before taking the first
\* one: nothing found, nothing printed, first set to nothing.
ForwardNYChecked(b, e, a) ==
  LET b1 == [b EXCEPT !.response = a, !.results = Str(a.body)]
      j == JsonLoads(a.body) IN
  IF j.err # "None" THEN GRaise(b1, e, <<>>, j.err)
  ELSE IF ~HasKey(j.val, "features") THEN GRaise(b1, e, <<>>, "KeyError")
  ELSE IF j.val.v.features = <<>> THEN GOk([b1 EXCEPT !.first = Unbound], e, <<>>)
  ELSE LET b2 == [b1 EXCEPT !.first = Obj(j.val.v.features[1])]
       IN  GOk(b2, e, <<Str(b2.first.v.place_name),
                        Lst(b2.first.v.geometry.coordinates)>>)

\* response = geocoder.forward(...); results = response.text;
\* first = response.geojson()['features'][0]; print(first['place_name']);
\* print([coord for coord in first['geometry']['coordinates']])
ForwardNYReturn(b, e, a) ==
  LET b1 == [b EXCEPT !.response = a, !.results = Str(a.body)]
      j == JsonLoads(a.body) IN
  IF j.err # "None" THEN GRaise(b1, e, <<>>, j.err)
  ELSE IF ~HasKey(j.val, "features") THEN GRaise(b1, e, <<>>, "KeyError")
  ELSE IF j.val.v.features = <<>> THEN GRaise(b1, e, <<>>, "IndexError")
  ELSE LET b2 == [b1 EXCEPT !.first = Obj(j.val.v.features[1])]
       IN  GOk(b2, e, <<Str(b2.first.v.place_name),
                        Lst(b2.first.v.geometry.coordinates)>>)

\* response = geocoder.reverse(...); features = response.geojson()['features'];
\* features
ReverseNYReturn(b, e, a) ==
  LET b1 == [b EXCEPT !.response = a]
      j == JsonLoads(a.body) IN
  IF j.err # "None" THEN GRaise(b1, e, <<>>, j.err)
  ELSE IF ~HasKey(j.val, "features") THEN GRaise(b1, e, <<>>, "KeyError")
  ELSE LET b2 == [b1 EXCEPT !.features = Lst(j.val.v.features)]
       IN  GOk(b2, e, <<b2.features>>)

\* response = geocoder.reverse(...); features = response.geojson()['features'];
\* features[0]['place_name']
ReverseFreehouseReturn(b, e, a) ==
  LET b1 == [b EXCEPT !.response = a]
      j == JsonLoads(a.body) IN
  IF j.err # "None" THEN GRaise(b1, e, <<>>, j.err)
  ELSE IF ~HasKey(j.val, "features") THEN GRaise(b1, e, <<>>, "KeyError")
  ELSE LET b2 == [b1 EXCEPT !.features = Lst(j.val.v.features)] IN
       IF b2.features.v = <<>> THEN GRaise(b2, e, <<>>, "IndexError")
       ELSE GOk(b2, e, <<Str(b2.features.v[1].place_name)>>)

\* A lookup that shows the record and keeps it out of data.
FccLookupOwnName(b, e, a) ==
  LET b1 == [b EXCEPT !.response = a]
      j == JsonLoads(a.body) IN
  IF j.err # "None" THEN GRaise(b1, e, <<>>, j.err)
  ELSE GOk(b1, e, <<j.val>>)

\* response = requests.get(url); data = response.json(); data
FccLookupReturn(b, e, a) ==
  LET b1 == [b EXCEPT !.response = a]
      j == JsonLoads(a.body) IN
  IF j.err # "None" THEN GRaise(b1, e, <<>>, j.err)
  ELSE GOk([b1 EXCEPT !.data = j.val], e, <<j.val>>)

\* The rest of a network cell, once its call has returned the response a.
Resume(c, b, e, a) ==
  CASE c = "Download" -> DownloadReturn(b, e, a)
    [] c = "ForwardNY" -> ForwardNYReturn(b, e, a)
    [] c = "ReverseNY" -> ReverseNYReturn(b, e, a)
    [] c = "ReverseFreehouse" -> ReverseFreehouseReturn(b, e, a)
    [] c = "FccLookup" -> FccLookupReturn(b, e, a)
    [] c \in {"ForwardFreehouse", "Directions", "CensusPost"} -> BindResponse(b, e, a)

(***************************************************************************)
(* The kernel running notebook 13: one cell at a time, in any order the    *)
(* user picks, MaxRuns executions in a session.                            *)
(***************************************************************************)
GCommit(c, o) ==
  /\ ns' = o.ns
  /\ env' = o.env
  /\ out' = [cell |-> c, text |-> o.out]
  /\ err' = o.err

\* A cell without an HTTP call runs from its first statement to its last.
Step(c, o) ==
  /\ runs < MaxRuns
  /\ runs' = runs + 1
  /\ GCommit(c, o)
  /\ UNCHANGED <<pc, inflight, sent, calls, last, seed, arg>>

\* A call that returns at once and leaves the request on the wire.
IssueAsync(c, p) ==
  /\ ns' = p.ns
  /\ inflight' = inflight \cup {p.req}
  /\ sent' = sent + 1
  /\ calls' = calls + 1
  /\ UNCHANGED <<pc, env, out, err, last, seed, arg>>

\* The call does not return before the response is there: the kernel stays in
\* the cell, and the request goes on the wire once.
Issue(c, p) ==
  /\ ns' = p.ns
  /\ inflight' = inflight \cup {p.req}
  /\ sent' = sent + 1
  /\ calls' = calls + 1
  /\ pc' = c
  /\ UNCHANGED <<env, out, err, last, seed, arg>>

\* A network cell runs up to its call, or stops before it on an error.
Begin(c, p) ==
  /\ runs < MaxRuns
  /\ runs' = runs + 1
  /\ IF p.ready THEN Issue(c, p)
     ELSE /\ GCommit(c, GRaise(p.ns, env, <<>>, p.err))
          /\ UNCHANGED <<pc, inflight, sent, calls, last, seed, arg>>

\* import json; import requests; import pprint; pp = pprint.PrettyPrinter()
RunImportJson ==
  pc = "idle" /\ Step("ImportJson",
    GOk([ns EXCEPT !.json = Module, !.requests = Module, !.pp = Module], env, <<>>))

\* endpoint = ...; address = ...; params = {...};
\* url = requests.Request('GET', endpoint+address+'.json', params=params).prepare().url;
\* print(url)
RunBuildUrl ==
  pc = "idle" /\ Step("BuildUrl",
    LET b1 == [ns EXCEPT !.endpoint = Str(endpoint_literal),
                         !.address = Str(address_literal),
                         !.params = Dict(params_literal)] IN
    IF ~IsBound(ns, "requests") THEN GRaise(b1, env, <<>>, "NameError")
    ELSE LET b2 == [b1 EXCEPT !.url =
                       Str(PrepareUrl(b1.endpoint.v \o b1.address.v \o <<".json">>,
                                      b1.params.v))]
         IN  GOk(b2, env, <<b2.url>>))

\* response = requests.get(url) ...
RunDownload ==
  pc = "idle" /\ Begin("Download",
    IF ~IsBound(ns, "requests") \/ ~IsBound(ns, "url") THEN Stopped(ns, "NameError")
    ELSE Calling(ns, Req("GET", [url |-> ns.url.v], "none")))

\* pp.pprint(data)
RunPrettyPrint ==
  pc = "idle" /\ Step("PrettyPrint",
    IF ~IsBound(ns, "pp") \/ ~IsBound(ns, "data") THEN GRaise(ns, env, <<>>, "NameError")
    ELSE GOk(ns, env, <<ns.data>>))

\* for r in data['features']: coords = r['geometry']['coordinates']; print(coords)
RunCoordLoop ==
  pc = "idle" /\ Step("CoordLoop",
    IF ~IsBound(ns, "data") THEN GRaise(ns, env, <<>>, "NameError")
    ELSE IF ~HasKey(ns.data, "features") THEN GRaise(ns, env, <<>>, "KeyError")
    ELSE LET fs == ns.data.v.features IN
         IF fs = <<>> THEN GOk(ns, env, <<>>)
         ELSE GOk([ns EXCEPT !.r = Obj(fs[Len(fs)]),
                             !.coords = Lst(fs[Len(fs)].geometry.coordinates)],
                  env, [i \in 1 .. Len(fs) |-> Lst(fs[i].geometry.coordinates)]))

\* from mapbox import Geocoder; import os
RunImportGeocoder ==
  pc = "idle" /\ Step("ImportGeocoder",
    GOk([ns EXCEPT !.Geocoder = Module, !.os = Module], env, <<>>))

\* A cell that puts another credential into the environment.
RunEnvSetApiKey ==
  pc = "idle" /\ Step("EnvSet",
    IF ~IsBound(ns, "os") THEN GRaise(ns, env, <<>>, "NameError")
    ELSE GOk(ns, Str(apikey_literal), <<>>))

\* os.environ['MAPBOX_ACCESS_TOKEN'] = "pk...."
RunEnvSet ==
  pc = "idle" /\ Step("EnvSet",
    IF ~IsBound(ns, "os") THEN GRaise(ns, env, <<>>, "NameError")
    ELSE GOk(ns, Str(Token), <<>>))

\* os.environ['MAPBOX_ACCESS_TOKEN']
RunEnvShow ==
  pc = "idle" /\ Step("EnvShow",
    IF ~IsBound(ns, "os") THEN GRaise(ns, env, <<>>, "NameError")
    ELSE IF env = Unbound THEN GRaise(ns, env, <<>>, "KeyError")
    ELSE GOk(ns, env, <<env>>))

\* geocoder = Geocoder(access_token = os.environ['MAPBOX_ACCESS_TOKEN'])
RunMakeGeocoder ==
  pc = "idle" /\ Step("MakeGeocoder",
    IF ~IsBound(ns, "Geocoder") \/ ~IsBound(ns, "os")
      THEN GRaise(ns, env, <<>>, "NameError")
    ELSE IF env = Unbound THEN GRaise(ns, env, <<>>, "KeyError")
    ELSE GOk([ns EXCEPT !.geocoder = [t |-> "service", token |-> env.v]], env, <<>>))

\* response = geocoder.forward('2700 Bancroft Way, Berkeley, CA 94704', limit=1)
RunForwardFreehouse ==
  pc = "idle" /\ Begin("ForwardFreehouse",
    IF ~IsBound(ns, "geocoder") THEN Stopped(ns, "NameError")
    ELSE Calling(ns, Req("forward", [address |-> freehouse_address], ns.geocoder.token)))

\* results = response.text
RunResultsText ==
  pc = "idle" /\ Step("ResultsText",
    IF ~IsBound(ns, "response") THEN GRaise(ns, env, <<>>, "NameError")
    ELSE GOk([ns EXCEPT !.results = Str(ns.response.body)], env, <<>>))

\* data = json.loads(results); pp.pprint(data)
RunParseResults ==
  pc = "idle" /\ Step("ParseResults",
    IF ~IsBound(ns, "json") \/ ~IsBound(ns, "results")
      THEN GRaise(ns, env, <<>>, "NameError")
    ELSE LET j == JsonLoads(ns.results.v) IN
         IF j.err # "None" THEN GRaise(ns, env, <<>>, j.err)
         ELSE LET b1 == [ns EXCEPT !.data = j.val] IN
              IF ~IsBound(ns, "pp") THEN GRaise(b1, env, <<>>, "NameError")
              ELSE GOk(b1, env, <<j.val>>))

\* response = geocoder.forward('120 East 13th Street, ...', limit = 1) ...
RunForwardNY ==
  pc = "idle" /\ Begin("ForwardNY",
    IF ~IsBound(ns, "geocoder") THEN Stopped(ns, "NameError")
    ELSE Calling(ns, Req("forward", [address |-> newyork_address], ns.geocoder.token)))

\* response = geocoder.reverse(lon=-73.988893, lat=40.733003) ...
RunReverseNY ==
  pc = "idle" /\ Begin("ReverseNY",
    IF ~IsBound(ns, "geocoder") THEN Stopped(ns, "NameError")
    ELSE Calling(ns, Req("reverse", ReverseNY_args, ns.geocoder.token)))

\* response = geocoder.reverse(lon=-122.25425, lat=37.868969, types=['address']) ...
RunReverseFreehouse ==
  pc = "idle" /\ Begin("ReverseFreehouse",
    IF ~IsBound(ns, "geocoder") THEN Stopped(ns, "NameError")
    ELSE Calling(ns, Req("reverse", ReverseFreehouse_args, ns.geocoder.token)))

\* from mapbox import Directions
RunImportDirections ==
  pc = "idle" /\ Step("ImportDirections", GOk([ns EXCEPT !.Directions = Module], env, <<>>))

\* service = Directions(access_token = "pk...."), a service that is given its
\* token and does not look at the environment
RunMakeServiceWithToken ==
  pc = "idle" /\ Step("MakeService",
    IF ~IsBound(ns, "Directions") THEN GRaise(ns, env, <<>>, "NameError")
    ELSE GOk([ns EXCEPT !.service = [t |-> "service", token |-> Token]], env, <<>>))

\* service = Directions(): with no access_token argument the service takes the
\* token from the environment, if it is there
RunMakeService ==
  pc = "idle" /\ Step("MakeService",
    IF ~IsBound(ns, "Directions") THEN GRaise(ns, env, <<>>, "NameError")
    ELSE GOk([ns EXCEPT !.service =
                 [t |-> "service", token |-> IF env = Unbound THEN "none" ELSE env.v]],
             env, <<>>))

\* origin = {...}; destination = {...}
RunOriginDestination ==
  pc = "idle" /\ Step("OriginDestination",
    GOk([ns EXCEPT
           !.origin = Obj([name |-> "Portland, OR",
                           coordinates |-> <<"-122.7282", "45.5801">>]),
           !.destination = Obj([name |-> "Bend, OR",
                                coordinates |-> <<"-121.3153", "44.0582">>])],
        env, <<>>))

\* response = service.directions([origin, destination],'mapbox/driving')
RunDirections ==
  pc = "idle" /\ Begin("Directions",
    IF ~IsBound(ns, "service") \/ ~IsBound(ns, "origin") \/ ~IsBound(ns, "destination")
      THEN Stopped(ns, "NameError")
    ELSE Calling(ns, Req("directions",
                         [from |-> ns.origin.v.coordinates,
                          to |-> ns.destination.v.coordinates],
                         ns.service.token)))

\* driving_routes = response.geojson()
RunDrivingRoutes ==
  pc = "idle" /\ Step("DrivingRoutes",
    IF ~IsBound(ns, "response") THEN GRaise(ns, env, <<>>, "NameError")
    ELSE LET j == JsonLoads(ns.response.body) IN
         IF j.err # "None" THEN GRaise(ns, env, <<>>, j.err)
         ELSE GOk([ns EXCEPT !.driving_routes = j.val], env, <<>>))

\* import requests; from requests.auth import HTTPBasicAuth; apikey = ...;
\* request_url = ...; request_obj = {...};
\* response = requests.post(request_url, auth=HTTPBasicAuth(apikey, None), json=request_obj)
RunCensusPost ==
  pc = "idle" /\ Begin("CensusPost",
    Calling([ns EXCEPT !.requests = Module, !.HTTPBasicAuth = Module,
                       !.apikey = Str(apikey_literal),
                       !.request_url = Str("http://citysdk.commerce.gov"),
                       !.request_obj = Obj([zip |-> "21401", state |-> "MD"])],
            Req("POST", [url |-> <<"http://citysdk.commerce.gov">>], apikey_literal)))

\* response
RunShowResponse ==
  pc = "idle" /\ Step("ShowResponse",
    IF ~IsBound(ns, "response") THEN GRaise(ns, env, <<>>, "NameError")
    ELSE GOk(ns, env, <<ResponseRepr(ns.response)>>))

\* url = 'https://geo.fcc.gov/api/census/block/find?...'; response = requests.get(url) ...
RunFccLookup ==
  pc = "idle" /\ Begin("FccLookup",
    LET b1 == [ns EXCEPT !.url = Str(fcc_url_literal)] IN
    IF ~IsBound(ns, "requests") THEN Stopped(b1, "NameError")
    ELSE Calling(b1, Req("GET", [url |-> b1.url.v], "none")))

\* data['County']['FIPS'], which no cell asks for
RunCountyFips ==
  pc = "idle" /\ Step("BlockFips",
    IF ~IsBound(ns, "data") THEN GRaise(ns, env, <<>>, "NameError")
    ELSE IF ~HasKey(ns.data, "County") THEN GRaise(ns, env, <<>>, "KeyError")
    ELSE GOk(ns, env, <<Str(ns.data.v.County.FIPS)>>))

\* data['Block']['FIPS']
RunBlockFips ==
  pc = "idle" /\ Step("BlockFips",
    IF ~IsBound(ns, "data") THEN GRaise(ns, env, <<>>, "NameError")
    ELSE IF ~HasKey(ns.data, "Block") THEN GRaise(ns, env, <<>>, "KeyError")
    ELSE GOk(ns, env, <<Str(ns.data.v.Block.FIPS)>>))

\* The response arrives: the call returns it and the cell runs to its end.
Return ==
  /\ pc # "idle"
  /\ \E req \in inflight : \E a \in Answers(req) :
       /\ GCommit(pc, Resume(pc, ns, env, a))
       /\ last' = a
       /\ inflight' = inflight \ {req}
  /\ pc' = "idle"
  /\ UNCHANGED <<sent, calls, runs, seed, arg>>

\* No response arrives: the call raises ConnectionError and the cell ends there.
Fail ==
  /\ pc # "idle"
  /\ \E req \in inflight :
       /\ GCommit(pc, GRaise(ns, env, <<>>, "ConnectionError"))
       /\ inflight' = inflight \ {req}
  /\ pc' = "idle"
  /\ UNCHANGED <<sent, calls, last, runs, seed, arg>>

Init ==
  /\ ns = GeoEmpty
  /\ env = Unbound
  /\ out = NoOut
  /\ err = "None"
  /\ pc = "idle"
  /\ inflight = {}
  /\ sent = 0
  /\ calls = 0
  /\ last = Unbound
  /\ runs = 0
  /\ seed = 0
  /\ arg = Unbound

Next ==
  \/ RunImportJson \/ RunBuildUrl \/ RunDownload \/ RunPrettyPrint \/ RunCoordLoop
  \/ RunImportGeocoder \/ RunEnvSet \/ RunEnvShow \/ RunMakeGeocoder
  \/ RunForwardFreehouse \/ RunResultsText \/ RunParseResults
  \/ RunForwardNY \/ RunReverseNY \/ RunReverseFreehouse
  \/ RunImportDirections \/ RunMakeService \/ RunOriginDestination
  \/ RunDirections \/ RunDrivingRoutes
  \/ RunCensusPost \/ RunShowResponse \/ RunFccLookup \/ RunBlockFips
  \/ Return \/ Fail

Spec == Init /\ [][Next]_vars

(***************************************************************************)
(* Properties.                                                             *)
(***************************************************************************)

\* What a cell's outcome is compared by: the bindings it leaves and its output.
SameOutcome(o1, o2) == o1.ns = o2.ns /\ o1.out = o2.out /\ o1.err = o2.err

C8_TupleImmutable ==
  /\ out.cell \in {"TupleSetItem", "TupleRemoveAttr"} => err # "None"
  /\ IsBound(ns, "d") => ns.d = Tup(d_literal)

C8_Witness ==
  /\ out.cell = "TupleSetItem"
  /\ err = "TypeError"
  /\ ns.d = Tup(d_literal)

\* r is s without its first occurrence of c, the other elements in s's order.
WithoutFirst(s, c, r) ==
  \E i \in 1 .. Len(s) :
    /\ s[i] = c
    /\ \A j \in 1 .. i - 1 : s[j] # c
    /\ r = SubSeq(s, 1, i - 1) \o SubSeq(s, i + 1, Len(s))

\* C9: for a tuple d that contains c, after e = list(d); e.remove(c);
\* f = tuple(e) the tuple f is d without the first occurrence of c, in d's
\* order; d is unchanged throughout and e is a list.
C9_RemoveViaList ==
  "d" \in DOMAIN arg =>
    /\ ns.d = Tup(arg.d)
    /\ IsBound(ns, "e") => ns.e.t = "list"
    /\ pc = "done" /\ Contains(arg.d, arg.c) =>
         /\ err = "None"
         /\ ns.f.t = "tuple"
         /\ WithoutFirst(arg.d, arg.c, ns.f.v)
         /\ ns.e.v = ns.f.v

C9_Witness ==
  /\ "d" \in DOMAIN arg
  /\ pc = "done"
  /\ Cardinality({i \in 1 .. Len(arg.d) : arg.d[i] = arg.c}) >= 2
  /\ arg.d[1] # arg.c
  /\ IsBound(ns, "f")

\* C10: for lists x and y of the same length n, list(zip(x, y)) has length n
\* and its i-th element is the tuple (x[i], y[i]).
C10_ZipPairs ==
  "x" \in DOMAIN arg /\ pc = "done" /\ Len(arg.x) = Len(arg.y) =>
    LET r == out.text[1] IN
      /\ r.t = "list"
      /\ Len(r.v) = Len(arg.x)
      /\ \A i \in 1 .. Len(arg.x) : r.v[i] = Tup(<<arg.x[i], arg.y[i]>>)

C10_Witness ==
  /\ "x" \in DOMAIN arg
  /\ pc = "done"
  /\ Len(arg.x) = Len(arg.y)
  /\ Len(arg.x) >= 2
  /\ arg.x # arg.y
  /\ Len(out.text[1].v) = Len(arg.x)

(***************************************************************************)
(* Properties of notebook 13, checked under Spec.                          *)
(***************************************************************************)
\* C1: no request is retried or recovered.  Every execution of a network cell
\* that reaches its call has put exactly one request on the wire (as many
\* requests sent as calls made, also while one is outstanding); no cell raises
\* on account of the status of an answer; `response` is bound to the answer
\* that came last, a 503 included, and the `response` cell shows that answer
\* as it is.
C1_NoRetry ==
  /\ sent = calls
  /\ ns.response = last
  /\ err # "HTTPError"
  /\ (out.cell = "ShowResponse" /\ err = "None") => out.text = <<ResponseRepr(last)>>

C1_Witness ==
  /\ out.cell = "ShowResponse"
  /\ err = "None"
  /\ ns.response.req.api = "POST"
  /\ ns.response.status = 503
  /\ out.text = <<<<"Response", 503>>>>
  /\ sent = 1

\* C2: execution is synchronous.  At most one request is outstanding, one is
\* outstanding exactly while the kernel is inside the cell that issued it, and
\* from a state with a request outstanding the only step is the end of that
\* request (its return or its failure), after which the kernel is idle again:
\* no other cell and no later statement runs in between.
C2_Synchronous ==
  /\ [](Cardinality(inflight) <= 1 /\ (pc = "idle" <=> inflight = {}))
  /\ [][inflight # {} => (inflight' = {} /\ pc' = "idle" /\ out'.cell = pc)]_vars

C2_Witness ==
  /\ pc = "FccLookup"
  /\ inflight = {Req("GET", [url |-> fcc_url_literal], "none")}
  /\ out.cell = "Download"

HoldsForward(addr) ==
  /\ IsBound(ns, "results")
  /\ ns.results.v.fmt = "json"
  /\ "query" \in DOMAIN ns.results.v.doc
  /\ ns.results.v.doc.query = [address |-> addr]
  /\ ns.results.v.doc.features # <<>>

\* C5: forward then reverse gives the address back.  When the reverse cell of an
\* address has run and the forward result of that address is still held, the
\* (lon, lat) of the reverse request is the coordinate pair of the forward
\* result, and the first feature of the reverse result, if there is one, has
\* the place_name of the forward result.
C5_ForwardThenReverse ==
  /\ (out.cell = "ReverseNY" /\ err = "None" /\ IsBound(ns, "first")) =>
       /\ ns.response.req.q = [lon |-> ns.first.v.geometry.coordinates[1],
                               lat |-> ns.first.v.geometry.coordinates[2]]
       /\ ns.features.v # <<>> =>
            ns.features.v[1].place_name = ns.first.v.place_name
  /\ (out.cell = "ReverseFreehouse" /\ err = "None" /\ HoldsForward(freehouse_address)) =>
       LET fwd == ns.results.v.doc.features[1] IN
       /\ ns.response.req.q = [lon |-> fwd.geometry.coordinates[1],
                               lat |-> fwd.geometry.coordinates[2]]
       /\ ns.features.v[1].place_name = fwd.place_name
       /\ out.text = <<Str(fwd.place_name)>>

C5_Witness ==
  \/ /\ out.cell = "ReverseNY" /\ err = "None" /\ IsBound(ns, "first")
     /\ ns.features.v # <<>>
     /\ ns.features.v[1].place_name = newyork_address \o ", United States"
  \/ /\ out.cell = "ReverseFreehouse" /\ err = "None"
     /\ HoldsForward(freehouse_address)

\* C6: the block FIPS code shown by data['Block']['FIPS'] has 15 digits, state
\* (2), county (3), tract (6) and block (4) from the left: its first 2 digits
\* are data['State']['FIPS'] and its first 5 digits are data['County']['FIPS'].
C6_BlockFipsLayout ==
  (out.cell = "BlockFips" /\ err = "None") =>
    LET fips == out.text[1].v IN
    /\ Len(fips) = 2 + 3 + 6 + 4
    /\ \A i \in DOMAIN fips : fips[i] \in 0 .. 9
    /\ SubSeq(fips, 1, 2) = ns.data.v.State.FIPS
    /\ SubSeq(fips, 1, 5) = ns.data.v.County.FIPS

C6_Witness ==
  /\ out.cell = "BlockFips"
  /\ err = "None"
  /\ out.text = <<Str(<<4, 5, 0, 0, 7, 0, 0, 0, 3, 0, 0, 2, 0, 2, 4>>)>>

\* C7: the query URL is the endpoint, the address with no space or other
\* special character left in it, '.json', and a query string of exactly limit
\* and access_token; its path is the documented '<endpoint>Wurster+Hall.json?'.
C7_UrlAsDocumented ==
  (out.cell = "BuildUrl" /\ err = "None") =>
    LET u == ns.url.v
        n == Len(DocumentedPath) IN
    /\ \A i \in DOMAIN u : u[i] \notin Special
    /\ Len(u) >= n
    /\ SubSeq(u, 1, n) = DocumentedPath
    /\ SubSeq(u, n + 1, Len(u)) = UrlEncode(params_literal)

(***************************************************************************)
(* Properties of the dictionary and array statements, checked under        *)
(* SpecOps.                                                                *)
(***************************************************************************)
\* C11: merging a then b into an empty dictionary with update gives one entry
\* per distinct key: as many entries as the union of the two key sets (three
\* for antonyms and synonyms, five for antonyms and antonyms2), a key of b
\* carries b's value, a key of a alone carries a's value, and a and b are as
\* they were.
C11_MergeByUpdate ==
  out.cell = "Merge" =>
    LET n == ns.newdict.v
        a == arg.a
        b == arg.b IN
    /\ Len(n) = Cardinality(DictKeys(a) \cup DictKeys(b))
    /\ DictKeys(n) = DictKeys(a) \cup DictKeys(b)
    /\ \A k \in DictKeys(b) : DictGet(n, k) = DictGet(b, k)
    /\ \A k \in DictKeys(a) \ DictKeys(b) : DictGet(n, k) = DictGet(a, k)
    /\ ns.antonyms = Dict(a) /\ ns.synonyms = Dict(b)
    /\ (a = antonyms_literal /\ b = synonyms_literal) => Len(n) = 3
    /\ (a = antonyms_literal /\ b = <<<<"blue", "cold">>, <<"red", "hot">>>>) => Len(n) = 5

C11_Witness ==
  /\ out.cell = "Merge"
  /\ arg.a = antonyms_literal /\ arg.b = synonyms_literal
  /\ ns.newdict = Dict(synonyms_literal)

\* C12 (checked under SpecTypes): dictionaries cannot be joined with plus.  The
\* antonyms+synonyms cell ends in an error and shows nothing, antonyms and
\* synonyms are the dictionaries the cell bound them to, and the cell binds or
\* rebinds no other name: no merged dictionary exists after it.
C12_PlusOnDictsRaises ==
  /\ [](out.cell = "PlusDicts" =>
          /\ err = "TypeError"
          /\ out.text = <<>>
          /\ ns.antonyms = Dict(antonyms_literal)
          /\ ns.synonyms = Dict(synonyms_literal))
  /\ [][out'.cell = "PlusDicts" =>
          \A n \in DOMAIN ns \ {"antonyms", "synonyms"} : ns'[n] = ns[n]]_vars

C12_Witness ==
  /\ out.cell = "PlusDicts"
  /\ err = "TypeError"
  /\ ns.antonyms = Dict(antonyms_literal)
  /\ ns.synonyms = Dict(synonyms_literal)
  /\ ns.newdict = Unbound

\* C13: assigning to a key, by d[k] = v or by d.update({k: v}), sets the value
\* of k to v and leaves every other entry as it was; the dictionary has one
\* entry more when k was absent and as many as before when k was present.
C13_AssignSetsOneKey ==
  out.cell \in {"SetItem", "UpdateItem"} =>
    LET old == arg.dict
        new == ns.newdict.v IN
    /\ DictKeys(new) = DictKeys(old) \cup {arg.key}
    /\ DictGet(new, arg.key) = arg.val
    /\ \A k \in DictKeys(old) \ {arg.key} : DictGet(new, k) = DictGet(old, k)
    /\ Len(new) = IF arg.key \in DictKeys(old) THEN Len(old) ELSE Len(old) + 1

\* Both forms and both cases happen, on the dictionaries of the cells.
C13_Witness ==
  \/ /\ out.cell = "UpdateItem"
     /\ arg = [dict |-> <<>>, key |-> "new", val |-> "item"]
     /\ Len(ns.newdict.v) = 1
  \/ /\ out.cell = "SetItem"
     /\ arg.dict = cityPlanners_literal /\ arg.key = "place of birth"
     /\ Len(ns.newdict.v) = 5
     /\ DictGet(ns.newdict.v, "place of birth") = "San Francisco"

\* C14: del d[k] for a key k that is present deletes exactly that entry:
\* afterwards k is not a key, there is one entry less, and every other key has
\* the value it had.
C14_DelRemovesOneKey ==
  (out.cell = "Del" /\ arg.key \in DictKeys(arg.dict)) =>
    LET old == arg.dict
        new == ns.newdict.v IN
    /\ err = "None"
    /\ arg.key \notin DictKeys(new)
    /\ DictKeys(new) = DictKeys(old) \ {arg.key}
    /\ Len(new) = Len(old) - 1
    /\ \A k \in DictKeys(new) : DictGet(new, k) = DictGet(old, k)

C14_Witness ==
  /\ out.cell = "Del"
  /\ arg.key = "red"
  /\ Len(arg.dict) = 5
  /\ ns.newdict = Dict(antonyms_literal \o <<<<"blue", "cold">>>>)

C16_PercentLoop ==
  out.cell = "Percent" =>
    LET old == arg.race
        new == ns.race.v IN
    /\ err = "None"
    /\ Len(new) = Len(old)
    /\ \A i \in DOMAIN old :
         /\ new[i][1] = old[i][1]
         /\ new[i][2] = Round2(100 * old[i][2])
         /\ new[i][2] % 1000 = 0
         /\ 2 * (new[i][2] - 100 * old[i][2]) \in -1000 .. 1000
    /\ out.text = <<ns.race>>

C16_Witness ==
  /\ out.cell = "Percent"
  /\ arg.race = race_literal
  /\ ns.race = Dict(<<<<"white", 6430000>>, <<"african_american", 680000>>,
                      <<"asian", 2100000>>, <<"other", 790000>>>>)
  /\ ns.value = Str("other")

\* C17: the in operator tests membership. On a list it is true exactly when
\* the item is one of the elements; on a dictionary it is true exactly when the
\* item is one of the keys, whether or not it is one of the values; x not in c
\* is the negation of x in c. The test raises nothing and changes neither
\* collection.
C17_InIsMembership ==
  out.cell = "In" =>
    /\ err = "None"
    /\ out.text[1] = (\E i \in DOMAIN arg.countries : arg.countries[i] = arg.item)
    /\ out.text[2] = (\E i \in DOMAIN arg.countries : arg.countries[i] = arg.item2)
    /\ out.text[3] = (\E i \in DOMAIN arg.race : arg.race[i][1] = arg.key)
    /\ out.text[4] = ~out.text[3]
    /\ Len(out.text) = 4
    /\ ns.countries = Lst(arg.countries)
    /\ ns.race = Dict(arg.race)

\* a string that is a value of the dictionary and not a key is not in it, and
\* an element of the list that is not the first one is in it
C17_Witness ==
  /\ out.cell = "In"
  /\ arg.race = <<<<"hot", "cold">>>>
  /\ arg.key = "cold"
  /\ arg.countries = <<"Canada", "Japan">>
  /\ arg.item = "Japan"
  /\ arg.item2 = "Iran"
  /\ out.text = <<TRUE, FALSE, FALSE, TRUE>>

\* C18: a list of numbers x and the array y = np.array(x) built from it give
\* the same result for sum, min, np.mean, np.median and np.size, and building
\* y leaves x unchanged.
C18_ListAndArrayAgree ==
  /\ pc = "stats" =>
       /\ ns.x = Lst(arg.xs)
       /\ ns.y.t = "ndarray"
       /\ ns.y.v = arg.xs
  /\ out.cell \in {"sum", "min", "mean", "median", "size"} =>
       /\ out.text[1] = out.text[2]
       /\ out.cell = "sum" /\ arg.xs = <<1, 2, 3, 4, 5>> => out.text[2] = Num(15)
       /\ out.cell = "min" /\ arg.xs # <<>> =>
            /\ \E i \in DOMAIN arg.xs : out.text[2] = Num(arg.xs[i])
            /\ \A i \in DOMAIN arg.xs : out.text[2].v <= arg.xs[i]
       /\ out.cell = "mean" /\ arg.xs = <<1, 2, 3, 4, 5>> => out.text[2].v = <<3, 1>>
       /\ out.cell = "median" /\ arg.xs = <<5, 1, 4, 2>> => out.text[2].v = <<3, 1>>
       /\ out.cell = "size" => out.text[2] = Num(Len(arg.xs))

C18_Witness ==
  /\ out.cell = "median"
  /\ arg.xs = <<1, 2, 3, 4, 5>>
  /\ ns.x = Lst(<<1, 2, 3, 4, 5>>)
  /\ ns.y = Arr(<<1, 2, 3, 4, 5>>)
  /\ out.text = <<[t |-> "float", v |-> <<3, 1>>], [t |-> "float", v |-> <<3, 1>>]>>

\* C19: x / 10 on the list x raises an error and leaves x unchanged; y / 10 on
\* the array gives, at every index, the value the list comprehension
\* [z/10 for z in x] gives at that index.
C19_DivisionIsVectorized ==
  /\ (out.cell = "Div" /\ out.text[1] = "x") =>
       /\ err = "TypeError"
       /\ out.text[2].t = "raise"
       /\ ns.x = Lst(arg.xs)
  /\ (out.cell = "Div" /\ out.text[1] = "y") =>
       /\ err = "None"
       /\ out.text[2].t = "ndarray"
       /\ Len(out.text[2].v) = Len(arg.xs)
       /\ \A i \in DOMAIN arg.xs :
            /\ out.text[2].v[i].v[1] * 10 = arg.xs[i] * out.text[2].v[i].v[2]
            /\ ns.xscaled.t = "list" => out.text[2].v[i] = ns.xscaled.v[i]
       /\ ns.x = Lst(arg.xs)
       /\ ns.y = Arr(arg.xs)
  /\ out.cell = "Scaled" =>
       /\ ns.x = Lst(arg.xs)
       /\ Len(ns.xscaled.v) = Len(arg.xs)
       /\ \A i \in DOMAIN arg.xs :
            ns.xscaled.v[i].v[1] * 10 = arg.xs[i] * ns.xscaled.v[i].v[2]

C19_Witness ==
  /\ out.cell = "Div"
  /\ out.text[1] = "y"
  /\ arg.xs = <<1, 2, 3, 4, 5>>
  /\ ns.xscaled.t = "list"
  /\ out.text[2].v[5] = [t |-> "float", v |-> <<1, 2>>]
  /\ ns.xscaled.v[1] = [t |-> "float", v |-> <<1, 10>>]

\* C20: no cell looks at a response before using it, so an answer without
\* features ends the two extraction paths differently.  The loop
\* for r in data['features'] over no features prints nothing, raises nothing
\* and binds nothing; response.geojson()['features'][0] raises IndexError and
\* leaves first as it was.  With features present the loop prints the
\* coordinates of every feature in the order of the response, and the other
\* path binds first to the first feature and prints its coordinates in order.
C20_EmptyResultTwoPaths ==
  /\ []((out.cell = "CoordLoop" /\ IsBound(ns, "data") /\ HasKey(ns.data, "features")) =>
         LET fs == ns.data.v.features IN
         /\ err = "None"
         /\ out.text = [i \in DOMAIN fs |-> Lst(fs[i].geometry.coordinates)]
         /\ fs = <<>> => out.text = <<>>)
  /\ []((out.cell = "ForwardNY" /\ err \notin {"NameError", "ConnectionError"}) =>
         LET body == ns.response.body IN
         /\ ns.response.req.api = "forward"
         /\ (body.fmt = "json" /\ body.doc.features = <<>>) =>
              (err = "IndexError" /\ out.text = <<>>)
         /\ (body.fmt = "json" /\ body.doc.features # <<>>) =>
              /\ err = "None"
              /\ ns.first = Obj(body.doc.features[1])
              /\ out.text = <<Str(body.doc.features[1].place_name),
                              Lst(body.doc.features[1].geometry.coordinates)>>)
  /\ [][(out'.cell = "ForwardNY" /\ err' # "None") => ns'.first = ns.first]_vars
  /\ [][(out'.cell = "CoordLoop" /\ runs' # runs /\ pc' = "idle" /\ err' = "None"
           /\ ns.data.v.features = <<>>) => ns' = ns]_vars

\* the New York address was found once and first was bound; the cell runs
\* again, the geocoder finds nothing, and first is still the old feature
C20_Witness ==
  /\ out.cell = "ForwardNY"
  /\ err = "IndexError"
  /\ out.text = <<>>
  /\ ns.response.body.doc.features = <<>>
  /\ ns.first = Obj(NewYorkFeature)

C22_OnlyFccAssignsBlock ==
  [][(IsBound(ns', "data") /\ ns'.data # ns.data /\ HasKey(ns'.data, "Block"))
       => out'.cell = "FccLookup"]_vars

\* C22: data is shared by the geocoding cells and the FCC cell.  Once the FCC
\* cell has run to its end, data is the FCC record, which has no 'features'
\* key; the coordinate loop over such a data raises KeyError and prints
\* nothing.  data['Block']['FIPS'] succeeds exactly when data holds the FCC
\* record, whichever cell put it there: the FCC cell, the download cell (url
\* is shared too, and the FCC cell leaves the FCC url in it) or the
\* json.loads(results) cell (when results is the text of the FCC answer).
\* Only these three cells assign data.
C22_DataIsShared ==
  /\ []((out.cell = "FccLookup" /\ err = "None") =>
          /\ ns.data = Obj(FccRecord)
          /\ ~HasKey(ns.data, "features")
          /\ HasKey(ns.data, "Block"))
  /\ []((out.cell = "CoordLoop" /\ IsBound(ns, "data") /\ ~HasKey(ns.data, "features")) =>
          (err = "KeyError" /\ out.text = <<>>))
  /\ [](out.cell = "BlockFips" =>
          /\ (err = "None") <=> (IsBound(ns, "data") /\ ns.data = Obj(FccRecord))
          /\ err = "None" => out.text = <<Str(FccRecord.Block.FIPS)>>
          /\ err \in {"None", "NameError", "KeyError"})
  /\ []((IsBound(ns, "data") /\ HasKey(ns.data, "Block")) =>
          (ns.data = Obj(FccRecord) /\ ~HasKey(ns.data, "features")))
  /\ [][ns'.data # ns.data =>
          /\ out'.cell \in {"Download", "ParseResults", "FccLookup"}
          /\ out'.cell = "Download" =>
               (ns'.data = Obj(FccRecord) <=> ns.url = Str(fcc_url_literal))
          /\ out'.cell = "ParseResults" => ns'.data = Obj(ns.results.v.doc)]_vars

\* results holds the text of the FCC answer, which only the download cell and
\* the results = response.text cell put there; data holds the FCC record and
\* data['Block']['FIPS'] shows the block
C22_Witness ==
  /\ out.cell = "BlockFips"
  /\ err = "None"
  /\ ns.data = Obj(FccRecord)
  /\ ns.results = Str(JsonBody(FccRecord))
  /\ out.text = <<Str(<<4, 5, 0, 0, 7, 0, 0, 0, 3, 0, 0, 2, 0, 2, 4>>)>>

\* C23: run from top to bottom, the notebook binds Z anew before the linear
\* algebra cells, so the earlier Z[0,2] = 9 does not carry over.  When
\* Z.dot(Z) and np.transpose(Z) are evaluated Z is the fresh
\* np.arange(9).reshape(3,3), with Z[0,2] = 2, whatever was assigned into the
\* earlier array; the two calls show the product and the transpose of that
\* array and leave Z as it is.
C23_ZReboundBeforeLinearAlgebra ==
  LET fresh == Arr(<<<<0, 1, 2>>, <<3, 4, 5>>, <<6, 7, 8>>>>) IN
  /\ out.cell = "ZSet" =>
       /\ err = "None"
       /\ ns.Z.v[arg.i + 1][arg.j + 1] = arg.val
       /\ \A i, j \in 1 .. 3 :
            (i # arg.i + 1 \/ j # arg.j + 1) => ns.Z.v[i][j] = fresh.v[i][j]
       /\ out.text = <<ns.Z>>
  /\ pc \in {"Zdot", "Ztranspose"} =>
       /\ ns.Z = fresh
       /\ ns.Z.v[1][3] = 2
  /\ out.cell = "ZDot" =>
       /\ err = "None"
       /\ ns.Z = fresh
       /\ out.text = <<Arr(<<<<15, 18, 21>>, <<42, 54, 66>>, <<69, 90, 111>>>>)>>
  /\ out.cell = "ZTranspose" =>
       /\ err = "None"
       /\ ns.Z = fresh
       /\ out.text = <<Arr(<<<<0, 3, 6>>, <<1, 4, 7>>, <<2, 5, 8>>>>)>>

\* Z[0,2] = 9 was run on the first array, and the transpose shown at the end
\* is that of the fresh one
C23_Witness ==
  /\ out.cell = "ZTranspose"
  /\ pc = "done"
  /\ arg = [i |-> 0, j |-> 2, val |-> 9]
  /\ ns.Z.v[1][3] = 2
  /\ out.text[1].v[3][1] = 2

====
